---- MODULE Spec2Model ----
(***************************************************************************)
(* Model of the live market-data core of the backend:                      *)
(*   binance_service.py     BinanceWebSocketService (spot feed connector)  *)
(*   polymarket_service.py  PolymarketService.get_bitcoin_market_price     *)
(*   signal_service.py      SignalGeneratorService.generate_signal         *)
(*   server.py              monitor_prices, startup, shutdown, endpoints   *)
(*   polymarket_trading_service.py  PolymarketTradingService             *)
(*                                                                         *)
(* Optional[T] values are sequences: <<>> is None, <<v>> is the value v.   *)
(* Prices are integers in the feed's native unit; a confidence is an       *)
(* integer number of hundredths (80 is 0.8).                               *)
(***************************************************************************)
EXTENDS Integers, Sequences, FiniteSets, TLC

VARIABLES
    \* --- server.py module globals -------------------------------------
    started,          \* startup() has run: the service globals are set
    shutdownDone,     \* shutdown_db_client() has run
    httpClients,      \* the httpx.AsyncClient of each service: "None",
                      \* "open" or "closed"
    llmKey,           \* EMERGENT_LLM_KEY as the last startup() found it:
                      \* "None" (no startup yet), "set" or "missing"
    \* --- BinanceWebSocketService fields --------------------------------
    websocket,        \* "None", "open" or "closed" (self.websocket)
    latest_price,     \* Optional float
    last_update,      \* Optional timestamp
    connected,        \* self.connected
    \* --- the connect() task -------------------------------------------
    cpc,              \* "idle", "connecting", "listening", "sleeping"
    reconnect_delay,  \* local of connect()
    \* --- history ------------------------------------------------------
    fails,            \* consecutive failed connection attempts
    waited,           \* Optional: the delay of the sleep in progress
    received,         \* the messages the listener has handled, in order
    attemptsSinceStop, \* connection attempts completed after disconnect()
    listenExit,       \* how _listen last returned, until the next attempt
                      \* ends: "none", "closed", "error" or "parse"
    \* --- PolymarketService fields ------------------------------------
    bitcoin_market_cache, \* Optional market
    \* --- the monitor_prices() task -----------------------------------
    mpc,              \* "idle", "tick", "fetch", "emit_price", "gen",
                      \* "insert", "emit_sig", "sleep"
    mBin,             \* local binance_price (Optional)
    mPoly,            \* local polymarket_price (Optional)
    mSig,             \* local signal (Optional)
    \* --- history of the current tick ---------------------------------
    tickEvents,       \* events sio.emit delivered in this tick, in order
    invoked,          \* generate_signal was called in this tick
    genRaised,        \* generate_signal raised to its caller
    mOracle,          \* Optional: the outcome of the oracle call it made
    mErr,             \* the step that raised into line 381, or "none"
    mFetched,         \* the tick made its prediction-market fetch
    running,          \* tick bodies begun and not yet at their sleep
    \* --- the API layer ------------------------------------------------
    apiResp,          \* the last response of an endpoint
    \* --- PolymarketTradingService fields ------------------------------
    tConnected,       \* self.connected
    tClient,          \* Optional: the private key self.client was built with
    \* --- history of the trading service ------------------------------
    tLastConnect,     \* "none", "ok" or "failed": the last connect_account
    tClosedSince,     \* close() has run since the last connect_account
    tLast             \* Optional: the last order operation, what it sent
                      \* to the venue client and what it returned

feedVars == <<websocket, latest_price, last_update, connected, cpc,
              reconnect_delay, fails, waited, received, attemptsSinceStop,
              listenExit>>

monVars == <<bitcoin_market_cache, mpc, mBin, mPoly, mSig, tickEvents,
             invoked, genRaised, mOracle, mErr, mFetched, running>>

tradeVars == <<tConnected, tClient, tLastConnect, tClosedSince, tLast>>

None == <<>>
Some(v) == <<v>>

\* --- bounds -----------------------------------------------------------
MaxFails == 8      \* consecutive connection failures explored
MaxRecv == 2       \* messages received by the listener
StopCap == 2       \* attempts counted after a stop request

\* --- binance_service.py ------------------------------------------------

InitialReconnectDelay == 1
MaxReconnectDelay == 60

Min(a, b) == IF a < b THEN a ELSE b

\* float(s) for the strings the feeds carry: defined on numerals only.
FloatTable == [s \in {"0", "100", "101", "0.0", "1.0", "202"} |->
                 CASE s = "0"   -> 0
                   [] s = "100" -> 100
                   [] s = "101" -> 101
                   [] s = "0.0" -> 0
                   [] s = "1.0" -> 1
                   [] s = "202" -> 202]

CanFloat(s) == s \in DOMAIN FloatTable

\* A websocket message: text that is or is not JSON; when it is, the
\* decoded object is a function from its keys to strings.
PriceStrings == {"0", "100", "101", "abc"}
Messages ==
    {[json |-> TRUE, data |-> [k \in {"p"} |-> s]] : s \in PriceStrings}
      \cup {[json |-> TRUE, data |-> [k \in {"e"} |-> "trade"]],
            [json |-> FALSE, data |-> <<>>]}

\* Next delay after a failure (line 41).
NextDelayDoubleOnly(d) == d * 2
NextDelay(d) == Min(d * 2, MaxReconnectDelay)

\* The body of one iteration of `async for message in self.websocket`
\* (lines 47-53): the exception raised, if any, and the new sample cell.
HandleMessageKeepFirst(m, price, upd, now) ==
    IF ~m.json THEN [exc |-> "JSONDecodeError", price |-> price, upd |-> upd]
    ELSE IF "p" \in DOMAIN m.data
         THEN IF CanFloat(m.data["p"])
              THEN IF price = None
                   THEN [exc |-> "none", price |-> Some(FloatTable[m.data["p"]]),
                         upd |-> Some(now)]
                   ELSE [exc |-> "none", price |-> price, upd |-> upd]
              ELSE [exc |-> "ValueError", price |-> price, upd |-> upd]
         ELSE [exc |-> "none", price |-> price, upd |-> upd]

HandleMessageNoFieldTest(m, price, upd, now) ==
    IF ~m.json THEN [exc |-> "JSONDecodeError", price |-> price, upd |-> upd]
    ELSE IF "p" \in DOMAIN m.data
         THEN IF CanFloat(m.data["p"])
              THEN [exc |-> "none", price |-> Some(FloatTable[m.data["p"]]),
                    upd |-> Some(now)]
              ELSE [exc |-> "ValueError", price |-> price, upd |-> upd]
         ELSE [exc |-> "KeyError", price |-> price, upd |-> upd]

\* A body that has written the price and not yet the timestamp.
HandleMessageTorn(m, price, upd, now) ==
    IF ~m.json THEN [exc |-> "JSONDecodeError", price |-> price, upd |-> upd]
    ELSE IF "p" \in DOMAIN m.data
         THEN IF CanFloat(m.data["p"])
              THEN [exc |-> "none", price |-> Some(FloatTable[m.data["p"]]),
                    upd |-> upd]
              ELSE [exc |-> "ValueError", price |-> price, upd |-> upd]
         ELSE [exc |-> "none", price |-> price, upd |-> upd]

HandleMessage(m, price, upd, now) ==
    IF ~m.json THEN [exc |-> "JSONDecodeError", price |-> price, upd |-> upd]
    ELSE IF "p" \in DOMAIN m.data
         THEN IF CanFloat(m.data["p"])
              THEN [exc |-> "none", price |-> Some(FloatTable[m.data["p"]]),
                    upd |-> Some(now)]
              ELSE [exc |-> "ValueError", price |-> price, upd |-> upd]
         ELSE [exc |-> "none", price |-> price, upd |-> upd]

\* get_latest_price (lines 61-63).
get_latest_price == latest_price

\* websockets.connect succeeds (lines 28-35): the loop enters _listen.
ConnectOK ==
    /\ cpc = "connecting"
    /\ websocket' = "open"
    /\ connected' = TRUE
    /\ reconnect_delay' = InitialReconnectDelay
    /\ cpc' = "listening"
    /\ fails' = 0
    /\ waited' = None
    /\ attemptsSinceStop' =
         IF shutdownDone THEN Min(attemptsSinceStop + 1, StopCap)
         ELSE attemptsSinceStop
    /\ listenExit' = "none"
    /\ UNCHANGED <<latest_price, last_update, received>>

\* websockets.connect raises (lines 37-40): the loop starts its sleep.
ConnectFail ==
    /\ cpc = "connecting"
    /\ fails < MaxFails
    /\ connected' = FALSE
    /\ cpc' = "sleeping"
    /\ fails' = fails + 1
    /\ waited' = Some(reconnect_delay)
    /\ attemptsSinceStop' =
         IF shutdownDone THEN Min(attemptsSinceStop + 1, StopCap)
         ELSE attemptsSinceStop
    /\ listenExit' = "none"
    /\ UNCHANGED <<websocket, latest_price, last_update, reconnect_delay,
                   received>>

\* asyncio.sleep returns (lines 40-41): the delay is doubled, capped.
SleepDone ==
    /\ cpc = "sleeping"
    /\ reconnect_delay' = NextDelay(reconnect_delay)
    /\ cpc' = "connecting"
    /\ waited' = None
    /\ UNCHANGED <<websocket, latest_price, last_update, connected, fails,
                   received, attemptsSinceStop, listenExit>>

\* A listener whose body exception escapes connect() and ends the task.
RecvMessageFatal(m) ==
    /\ cpc = "listening"
    /\ websocket = "open"
    /\ Len(received) < MaxRecv
    /\ received' = Append(received, m)
    /\ LET r == HandleMessage(m, latest_price, last_update, Len(received) + 1) IN
         /\ latest_price' = r.price
         /\ last_update' = r.upd
         /\ cpc' = IF r.exc = "none" THEN "listening" ELSE "dead"
         /\ listenExit' = IF r.exc = "none" THEN listenExit ELSE "parse"
    /\ UNCHANGED <<websocket, connected, reconnect_delay, fails, waited,
                   attemptsSinceStop>>

\* One message arrives on the open connection (lines 46-59).  An exception
\* of the body is caught by _listen, which returns to connect(): the loop
\* goes round with no sleep and without touching `connected`.
RecvMessage(m) ==
    /\ cpc = "listening"
    /\ websocket = "open"
    /\ Len(received) < MaxRecv
    /\ received' = Append(received, m)
    /\ LET r == HandleMessage(m, latest_price, last_update, Len(received) + 1) IN
         /\ latest_price' = r.price
         /\ last_update' = r.upd
         /\ cpc' = IF r.exc = "none" THEN "listening" ELSE "connecting"
         /\ listenExit' = IF r.exc = "none" THEN listenExit ELSE "parse"
    /\ UNCHANGED <<websocket, connected, reconnect_delay, fails, waited,
                   attemptsSinceStop>>

\* The connection ends under the listener: "closed" by the peer or by
\* disconnect() (the iteration stops) or broken, an "error"
\* (ConnectionClosedError, caught at line 58).  Either way _listen returns
\* normally.
ListenEnd(how) ==
    /\ cpc = "listening"
    /\ how = "error" => websocket = "open"
    /\ websocket' = "closed"
    /\ listenExit' = how
    /\ cpc' = "connecting"
    /\ UNCHANGED <<latest_price, last_update, connected, reconnect_delay,
                   fails, waited, received, attemptsSinceStop>>

\* disconnect (lines 65-70).
DisconnectEffect ==
    /\ connected' = FALSE
    /\ websocket' = IF websocket # "None" THEN "closed" ELSE websocket

\* --- polymarket_service.py ---------------------------------------------

\* The keywords question.lower() contains (line 38), per listed question.
QuestionKeywords ==
    [q \in {"Bitcoin up in 15 minutes?", "BITCOIN above 100k?",
            "Ethereum up in 15 minutes?"} |->
       CASE q = "Bitcoin up in 15 minutes?"  -> {"bitcoin", "15"}
         [] q = "BITCOIN above 100k?"        -> {"bitcoin"}
         [] q = "Ethereum up in 15 minutes?" -> {"15"}]

Market(id, q, prices) == [id |-> id, question |-> q, outcomePrices |-> prices]

\* Answers of GET /events: an HTTP failure, or the markets of the listed
\* events in listing order.
GammaResponses ==
    {[ok |-> FALSE, markets |-> <<>>],
     [ok |-> TRUE, markets |-> <<Market("m1", "BITCOIN above 100k?", <<"1.0">>),
                                 Market("m2", "Ethereum up in 15 minutes?", <<"1.0">>)>>],
     [ok |-> TRUE, markets |-> <<Market("m1", "BITCOIN above 100k?", <<"1.0">>),
                                 Market("m3", "Bitcoin up in 15 minutes?", <<"0.0", "1.0">>)>>],
     [ok |-> TRUE, markets |-> <<Market("m4", "Bitcoin up in 15 minutes?", <<>>),
                                 Market("m5", "Bitcoin up in 15 minutes?", <<"1.0", "0.0">>)>>],
     [ok |-> TRUE, markets |-> <<Market("m3", "Bitcoin up in 15 minutes?", <<"202">>)>>],
     [ok |-> TRUE, markets |-> <<Market("m4", "Bitcoin up in 15 minutes?", <<>>)>>],
     [ok |-> TRUE, markets |-> <<Market("m5", "Bitcoin up in 15 minutes?", <<"abc">>)>>]}

IsBitcoin15(market) ==
    /\ "bitcoin" \in QuestionKeywords[market.question]
    /\ "15" \in QuestionKeywords[market.question]

\* The scan of lines 34-53 from market i on: the value returned and the
\* cache left behind.  float() raising on the price is caught at line 58.
RECURSIVE ScanMarkets(_, _, _)
ScanMarkets(ms, i, cache) ==
    IF i > Len(ms) THEN [ret |-> None, cache |-> cache]
    ELSE IF IsBitcoin15(ms[i])
         THEN IF ms[i].outcomePrices # <<>>
              THEN IF CanFloat(ms[i].outcomePrices[1])
                   THEN [ret |-> Some([market_id |-> ms[i].id,
                                       price |-> FloatTable[ms[i].outcomePrices[1]]]),
                         cache |-> Some(ms[i].id)]
                   ELSE [ret |-> None, cache |-> Some(ms[i].id)]
              ELSE ScanMarkets(ms, i + 1, Some(ms[i].id))
         ELSE ScanMarkets(ms, i + 1, cache)

\* get_bitcoin_market_price (lines 18-60).
get_bitcoin_market_price(resp, cache) ==
    IF ~resp.ok THEN [ret |-> None, cache |-> cache]
    ELSE ScanMarkets(resp.markets, 1, cache)

\* --- signal_service.py -------------------------------------------------

\* Python truthiness of an Optional[float]: None and 0.0 are falsy.
Falsy(opt) == opt = None \/ opt = Some(0)

\* float(x) for the confidences the oracle writes, in hundredths.
ConfTable == [s \in {"0.8", "0.5", "1.5"} |->
                CASE s = "0.8" -> 80
                  [] s = "0.5" -> 50
                  [] s = "1.5" -> 150]

\* The oracle's text is a sequence of tokens: a ``` fence, the word json,
\* or a body that is or is not a JSON object.  A JSON object one of whose
\* strings holds a ``` is three tokens: its head, the fence, its tail.
Fence == [t |-> "fence"]
Lang == [t |-> "json"]
Body(d) == [t |-> "body", json |-> TRUE, data |-> d]
NotJson == [t |-> "body", json |-> FALSE, data |-> <<>>]
JsonHead(d) == [t |-> "head", data |-> d]
JsonTail == [t |-> "tail"]

Answer(ty, c, r) == [signal_type |-> ty, confidence |-> c, reason |-> r]

OracleTexts ==
    {<<NotJson>>,
     <<Body(Answer("BUY", "0.8", "r"))>>,
     <<Body(Answer("SELL", "0.5", "r"))>>,
     <<Body(Answer("HOLD", "0.5", "x"))>>,
     <<Body(Answer("BUY", "high", "r"))>>,
     <<Body(Answer("BUY", "1.5", "r"))>>,
     <<Body([signal_type |-> "BUY", confidence |-> "0.8"])>>,
     <<Body([confidence |-> "0.8", reason |-> "r"])>>,
     <<Fence, Lang, Body([signal_type |-> "BUY"]), Fence>>,
     <<Fence, Lang, Body(Answer("BUY", "0.8", "r")), Fence>>,
     <<Fence, Body(Answer("SELL", "0.5", "r")), Fence>>,
     <<Fence, Lang, JsonHead(Answer("BUY", "0.8", "fenced")), Fence, JsonTail,
       Fence>>}

\* llm.send_message: it raises, or it returns a text.
OracleOutcomes ==
    {[raises |-> TRUE, text |-> <<>>]}
      \cup {[raises |-> FALSE, text |-> t] : t \in OracleTexts}

\* Index of the first fence at or after position i, or Len + 1.
RECURSIVE FenceFrom(_, _)
FenceFrom(text, i) ==
    IF i > Len(text) THEN Len(text) + 1
    ELSE IF text[i] = Fence THEN i
    ELSE FenceFrom(text, i + 1)

\* Index of the first ```json at or after position i, or Len + 1.
RECURSIVE JsonFenceFrom(_, _)
JsonFenceFrom(text, i) ==
    IF i >= Len(text) THEN Len(text) + 1
    ELSE IF text[i] = Fence /\ text[i + 1] = Lang THEN i
    ELSE JsonFenceFrom(text, i + 1)

\* Lines 87-90: the text between the first fence and the next one.
StripFence(text) ==
    IF JsonFenceFrom(text, 1) <= Len(text)
    THEN LET a == JsonFenceFrom(text, 1) + 2
         IN SubSeq(text, a, FenceFrom(text, a) - 1)
    ELSE IF FenceFrom(text, 1) <= Len(text)
    THEN LET a == FenceFrom(text, 1) + 1
         IN SubSeq(text, a, FenceFrom(text, a) - 1)
    ELSE text

\* json.loads accepts the text (line 92): one JSON object, whole.
JsonLoadsOk(text) ==
    \/ Len(text) = 1 /\ text[1].t = "body" /\ text[1].json
    \/ /\ Len(text) = 3
       /\ text[1].t = "head" /\ text[2] = Fence /\ text[3] = JsonTail

\* Lines 86-107: the exception raised, if any, and the Signal built.
\* The Signal model types signal_type as str: any string is accepted.
ParseResponse(text, bprice, pprice) ==
    LET body == StripFence(text)
        NoSig == [exc |-> "none", signal |-> None]
    IN IF ~JsonLoadsOk(body) THEN [NoSig EXCEPT !.exc = "JSONDecodeError"]
       ELSE LET d == body[1].data IN
            IF "signal_type" \notin DOMAIN d THEN [NoSig EXCEPT !.exc = "KeyError"]
            ELSE IF "confidence" \notin DOMAIN d THEN [NoSig EXCEPT !.exc = "KeyError"]
            ELSE IF d.confidence \notin DOMAIN ConfTable
                 THEN [NoSig EXCEPT !.exc = "ValueError"]
            ELSE IF "reason" \notin DOMAIN d THEN [NoSig EXCEPT !.exc = "KeyError"]
            ELSE [exc |-> "none",
                  signal |-> Some([signal_type |-> d.signal_type,
                                   confidence |-> ConfTable[d.confidence],
                                   reason |-> d.reason,
                                   binance_price |-> bprice,
                                   polymarket_price |-> pprice,
                                   price_delta |-> bprice - pprice])]

\* The exceptions the two handlers catch: `except json.JSONDecodeError`
\* (line 109) and `except Exception` (line 114).
InnerCaught == {"JSONDecodeError"}
OuterCaughtNarrow == {"JSONDecodeError", "OracleError"}
OuterCaught == {"JSONDecodeError", "KeyError", "ValueError", "OracleError"}

\* generate_signal (lines 56-116), given the spot price it reads, the
\* market data its fetch returns and the oracle's outcome.
generate_signal(binance_price, polymarket_data, oracle) ==
    LET Returns(sig) == [raised |-> FALSE, signal |-> sig]
        Handled(exc) == IF exc \in InnerCaught \cup OuterCaught
                        THEN Returns(None)
                        ELSE [raised |-> TRUE, signal |-> None]
    IN IF Falsy(binance_price) \/ polymarket_data = None THEN Returns(None)
       ELSE IF oracle.raises
            THEN IF "OracleError" \in OuterCaught THEN Returns(None)
                 ELSE [raised |-> TRUE, signal |-> None]
       ELSE LET r == ParseResponse(oracle.text, binance_price[1],
                                   polymarket_data[1].price)
            IN IF r.exc = "none" THEN Returns(r.signal) ELSE Handled(r.exc)

\* --- polymarket_trading_service.py ---------------------------------------

\* Prices are integers of hundredths (99 is 0.99).
MarketBuyPrice == 99
MarketSellPrice == 1

Sides == {"BUY", "SELL", "buy", "HOLD"}
LimitPrices == {40, 60}
PrivateKeys == {"k1", "k2"}

\* The outcomes of the venue client's calls: ClobClient(...) raises, the
\* derivation of the credentials raises, or the account connects;
\* create_order raises, post_order (or cancel) raises, or the call returns.
ConnectOutcomes == {"ctor_raises", "creds_raise", "ok"}
VenueOutcomes == {"sign_raises", "post_raises", "ok"}

\* is_connected (lines 55-56).
is_connected == tConnected /\ tClient # None

\* Lines 70 and 100: the side handed to OrderArgs.
OrderSideNotSell(side) == IF side = "SELL" THEN "SELL" ELSE "BUY"
OrderSide(side) == IF side = "BUY" THEN "BUY" ELSE "SELL"

\* Line 65: the price of a market order.
MarketPrice(side) == IF side = "BUY" THEN MarketBuyPrice ELSE MarketSellPrice

Refused(error) == [success |-> FALSE, side |-> None, error |-> error]

\* place_market_order (lines 58-89, kind FOK) and place_limit_order (lines
\* 91-120, kind GTC): the order handed to post_order, if any, and the
\* record returned.
PlaceOrder(kind, side, price, venue) ==
    LET order == [kind |-> kind, side |-> OrderSide(side), price |-> price] IN
    IF ~is_connected
    THEN [sent |-> None, result |-> Refused("Account not connected")]
    ELSE IF venue = "sign_raises"
    THEN [sent |-> None, result |-> Refused("venue")]
    ELSE IF venue = "post_raises"
    THEN [sent |-> Some(order), result |-> Refused("venue")]
    ELSE [sent |-> Some(order),
          result |-> [success |-> TRUE, side |-> Some(side), error |-> "none"]]

\* connect_account without the assignment of line 49.
connect_accountKeepFlag(key, how) ==
    /\ started
    /\ tClient' = IF how = "ctor_raises" THEN tClient ELSE Some(key)
    /\ tConnected' = IF how = "ok" THEN TRUE ELSE tConnected
    /\ tLastConnect' = IF how = "ok" THEN "ok" ELSE "failed"
    /\ tClosedSince' = FALSE
    /\ UNCHANGED <<tLast, httpClients>>

\* connect_account (lines 23-53).  The client is assigned at line 26, before
\* the credentials are derived at line 35.
connect_account(key, how) ==
    /\ started
    /\ tClient' = IF how = "ctor_raises" THEN tClient ELSE Some(key)
    /\ tConnected' = (how = "ok")
    /\ tLastConnect' = IF how = "ok" THEN "ok" ELSE "failed"
    /\ tClosedSince' = FALSE
    /\ UNCHANGED <<tLast, httpClients>>

place_market_order(side, venue) ==
    /\ started
    /\ ~is_connected => venue = "ok"
    /\ LET r == PlaceOrder("FOK", side, MarketPrice(side), venue) IN
         tLast' = Some([op |-> "market", side |-> side,
                        wasConnected |-> is_connected,
                        sent |-> r.sent, result |-> r.result])
    /\ UNCHANGED <<tConnected, tClient, tLastConnect, tClosedSince,
                   httpClients>>

place_limit_order(side, price, venue) ==
    /\ started
    /\ ~is_connected => venue = "ok"
    /\ LET r == PlaceOrder("GTC", side, price, venue) IN
         tLast' = Some([op |-> "limit", side |-> side,
                        wasConnected |-> is_connected,
                        sent |-> r.sent, result |-> r.result])
    /\ UNCHANGED <<tConnected, tClient, tLastConnect, tClosedSince,
                   httpClients>>

\* cancel_order (lines 135-146): client.cancel returns or raises.
cancel_order(ok) ==
    /\ started
    /\ ~is_connected => ok
    /\ tLast' =
         Some([op |-> "cancel", side |-> "",
               wasConnected |-> is_connected,
               sent |-> IF is_connected
                        THEN Some([kind |-> "cancel", side |-> "", price |-> 0])
                        ELSE None,
               result |-> IF ~is_connected THEN Refused("Account not connected")
                          ELSE IF ~ok THEN Refused("venue")
                          ELSE [success |-> TRUE, side |-> None,
                                error |-> "none"]])
    /\ UNCHANGED <<tConnected, tClient, tLastConnect, tClosedSince,
                   httpClients>>

\* close (lines 185-187), on the fields of the service.
TradingClose ==
    /\ tConnected' = FALSE
    /\ tClosedSince' = TRUE
    /\ UNCHANGED <<tClient, tLastConnect, tLast>>

\* close (lines 185-187) called on its own.
close_trading ==
    /\ started
    /\ httpClients' = [httpClients EXCEPT !.trading = "closed"]
    /\ TradingClose

\* --- server.py ---------------------------------------------------------

SignalThreshold == 100

Abs(x) == IF x < 0 THEN -x ELSE x

PriceUpdate(b, p) ==
    [topic |-> "price_update", binance_price |-> b, polymarket_price |-> p,
     price_delta |-> b - p]
NewSignal(sig) == [topic |-> "new_signal", signal |-> sig]

\* Line 372.
Significant(delta) == Abs(delta) > SignalThreshold

\* startup (lines 385-404): the services are built, the two tasks created.
\* key: EMERGENT_LLM_KEY is set.  Without it SignalGeneratorService.__init__
\* logs an error (signal_service.py:30-31) and goes on to LlmChat(api_key=
\* None), a library call: ok is whether that call returns.  When it raises,
\* startup() raises with it at line 394 and the process does not come up.
Startup(key, ok) ==
    /\ ~started
    /\ key => ok
    /\ llmKey' = IF key THEN "set" ELSE "missing"
    /\ started' = ok
    /\ cpc' = IF ok THEN "connecting" ELSE cpc
    /\ reconnect_delay' = InitialReconnectDelay
    /\ mpc' = IF ok THEN "tick" ELSE mpc
    /\ httpClients' = IF ok THEN [polymarket |-> "open", trading |-> "open",
                                  wallet |-> "open"]
                       ELSE httpClients
    /\ UNCHANGED <<shutdownDone, websocket, latest_price, last_update,
                   connected, fails, waited, received, listenExit,
                   attemptsSinceStop, bitcoin_market_cache, mBin, mPoly, mSig,
                   tickEvents, invoked, genRaised, mOracle, mErr, mFetched,
                   running, apiResp, tradeVars>>

\* shutdown_db_client (lines 406-414): the feed connector's disconnect(),
\* then close() of the trading and of the wallet-tracking service.
Shutdown ==
    /\ started
    /\ ~shutdownDone
    /\ shutdownDone' = TRUE
    /\ DisconnectEffect
    /\ httpClients' = [httpClients EXCEPT !.trading = "closed",
                                          !.wallet = "closed"]
    /\ TradingClose
    /\ UNCHANGED <<started, llmKey, latest_price, last_update, cpc,
                   reconnect_delay, fails, waited, received,
                   attemptsSinceStop, listenExit, monVars, apiResp>>

\* The tick bodies in progress once a step has taken the loop to `to`.
RunningAt(to) == IF to = "sleep" THEN running - 1 ELSE running

TickStartOnTimer ==
    /\ mpc \in {"tick", "fetch", "emit_price", "gen", "insert", "emit_sig", "sleep"}
    /\ mBin' = get_latest_price
    /\ mPoly' = None
    /\ mSig' = None
    /\ tickEvents' = <<>>
    /\ invoked' = FALSE
    /\ genRaised' = FALSE
    /\ mOracle' = None
    /\ mErr' = "none"
    /\ mFetched' = FALSE
    /\ mpc' = IF Falsy(get_latest_price) THEN "sleep" ELSE "fetch"
    /\ running' = IF Falsy(get_latest_price) THEN running ELSE running + 1
    /\ UNCHANGED bitcoin_market_cache

\* monitor_prices, lines 351-356: a tick starts and reads the spot price.
TickStart ==
    /\ mpc = "tick"
    /\ mBin' = get_latest_price
    /\ mPoly' = None
    /\ mSig' = None
    /\ tickEvents' = <<>>
    /\ invoked' = FALSE
    /\ genRaised' = FALSE
    /\ mOracle' = None
    /\ mErr' = "none"
    /\ mFetched' = FALSE
    /\ mpc' = IF Falsy(get_latest_price) THEN "sleep" ELSE "fetch"
    /\ running' = IF Falsy(get_latest_price) THEN running ELSE running + 1
    /\ UNCHANGED bitcoin_market_cache

TickFetchNoTest(resp) ==
    /\ mpc = "fetch"
    /\ LET f == get_bitcoin_market_price(resp, bitcoin_market_cache) IN
         /\ bitcoin_market_cache' = f.cache
         /\ mPoly' = IF f.ret = None THEN None ELSE Some(f.ret[1].price)
         /\ mpc' = "emit_price"
    /\ mFetched' = TRUE
    /\ running' = RunningAt(mpc')
    /\ UNCHANGED <<mBin, mSig, tickEvents, invoked, genRaised, mOracle, mErr>>

\* Lines 357-361: the prediction-market fetch returns.
TickFetch(resp) ==
    /\ mpc = "fetch"
    /\ LET f == get_bitcoin_market_price(resp, bitcoin_market_cache) IN
         /\ bitcoin_market_cache' = f.cache
         /\ mPoly' = IF f.ret = None THEN None ELSE Some(f.ret[1].price)
         /\ mpc' = IF f.ret = None THEN "sleep" ELSE "emit_price"
    /\ mFetched' = TRUE
    /\ running' = RunningAt(mpc')
    /\ UNCHANGED <<mBin, mSig, tickEvents, invoked, genRaised, mOracle, mErr>>

\* Lines 364-372: the price_update emit returns or raises; then the
\* threshold test.
TickEmitPrice(ok) ==
    /\ mpc = "emit_price"
    /\ IF ok
       THEN /\ tickEvents' = Append(tickEvents, PriceUpdate(mBin[1], mPoly[1]))
            /\ mpc' = IF Significant(mBin[1] - mPoly[1]) THEN "gen" ELSE "sleep"
            /\ mErr' = mErr
       ELSE /\ tickEvents' = tickEvents
            /\ mpc' = "sleep"
            /\ mErr' = "emit_price"
    /\ running' = RunningAt(mpc')
    /\ UNCHANGED <<bitcoin_market_cache, mBin, mPoly, mSig, invoked, genRaised,
                   mOracle, mFetched>>

\* Lines 373-374: generate_signal runs (its own price read, fetch and
\* oracle call) and returns.
TickGenerate(resp, oracle) ==
    /\ mpc = "gen"
    /\ invoked' = TRUE
    /\ LET f == get_bitcoin_market_price(resp, bitcoin_market_cache)
           g == generate_signal(get_latest_price, f.ret, oracle)
       IN /\ bitcoin_market_cache' = f.cache
          /\ genRaised' = g.raised
          /\ mSig' = g.signal
          /\ mOracle' = IF Falsy(get_latest_price) \/ f.ret = None
                        THEN None ELSE Some(oracle)
          /\ mErr' = IF g.raised THEN "generate_signal" ELSE mErr
          /\ mpc' = IF g.raised \/ g.signal = None THEN "sleep" ELSE "insert"
    /\ running' = RunningAt(mpc')
    /\ UNCHANGED <<mBin, mPoly, tickEvents, mFetched>>

TickInsertUncaught(ok) ==
    /\ mpc = "insert"
    /\ mpc' = IF ok THEN "emit_sig" ELSE "dead"
    /\ mErr' = IF ok THEN mErr ELSE "insert_one"
    /\ running' = RunningAt(mpc')
    /\ UNCHANGED <<bitcoin_market_cache, mBin, mPoly, mSig, tickEvents,
                   invoked, genRaised, mOracle, mFetched>>

\* Lines 375-377: db.signals.insert_one returns or raises.
TickInsert(ok) ==
    /\ mpc = "insert"
    /\ mpc' = IF ok THEN "emit_sig" ELSE "sleep"
    /\ mErr' = IF ok THEN mErr ELSE "insert_one"
    /\ running' = RunningAt(mpc')
    /\ UNCHANGED <<bitcoin_market_cache, mBin, mPoly, mSig, tickEvents,
                   invoked, genRaised, mOracle, mFetched>>

\* Line 378: the new_signal emit returns or raises.
TickEmitSignal(ok) ==
    /\ mpc = "emit_sig"
    /\ tickEvents' = IF ok THEN Append(tickEvents, NewSignal(mSig[1]))
                     ELSE tickEvents
    /\ mErr' = IF ok THEN mErr ELSE "emit_signal"
    /\ mpc' = "sleep"
    /\ running' = RunningAt(mpc')
    /\ UNCHANGED <<bitcoin_market_cache, mBin, mPoly, mSig, invoked, genRaised,
                   mOracle, mFetched>>

\* Lines 380 and 383: asyncio.sleep(5) returns; the loop goes round.
TickSleepDone ==
    /\ mpc = "sleep"
    /\ mpc' = "tick"
    /\ UNCHANGED <<bitcoin_market_cache, mBin, mPoly, mSig, tickEvents,
                   invoked, genRaised, mOracle, mErr, mFetched, running>>

\* GET /prices/current (lines 136-159).
get_current_prices(resp) ==
    /\ LET f == get_bitcoin_market_price(resp, bitcoin_market_cache)
           b == get_latest_price
           base == [op |-> "prices", spot |-> b, market |-> f.ret]
       IN /\ bitcoin_market_cache' = IF started THEN f.cache
                                     ELSE bitcoin_market_cache
          /\ apiResp' =
               IF ~started
               THEN Some([op |-> "prices", spot |-> b, market |-> None,
                          status |-> 503, body |-> None])
               ELSE IF b = None
               THEN Some([op |-> "prices", spot |-> b, market |-> f.ret,
                          status |-> 503, body |-> None])
               ELSE Some([op |-> "prices", spot |-> b, market |-> f.ret,
                          status |-> 200,
                          body |-> Some(IF f.ret # None
                                        THEN PriceUpdate(b[1], f.ret[1].price)
                                        ELSE [topic |-> "price_update",
                                              binance_price |-> b[1],
                                              polymarket_price |-> 0,
                                              price_delta |-> 0])])
    /\ UNCHANGED <<mpc, mBin, mPoly, mSig, tickEvents, invoked, genRaised,
                   mOracle, mErr, mFetched, running>>

\* POST /signals/generate (lines 172-190); ok is the outcome of insert_one
\* and of the emit: their exception is not handled and the framework
\* answers 500.
post_generate_signal(resp, oracle, ok) ==
    /\ LET f == get_bitcoin_market_price(resp, bitcoin_market_cache)
           b == get_latest_price
           g == generate_signal(b, f.ret, oracle)
       IN \* The oracle is consulted only with both prices, the store only
          \* with a signal: an outcome that is not consulted is not chosen.
          /\ (~started \/ Falsy(b) \/ f.ret = None) => oracle.raises
          /\ (~started \/ g.signal = None) => ok
          /\ IF ~started
             THEN /\ bitcoin_market_cache' = bitcoin_market_cache
                  /\ apiResp' =
                       Some([op |-> "generate", spot |-> b, market |-> None,
                             status |-> 503, body |-> None])
             ELSE /\ bitcoin_market_cache' = f.cache
                  /\ apiResp' =
                       Some([op |-> "generate", spot |-> b, market |-> f.ret,
                             status |-> IF g.signal # None /\ ok
                                        THEN 200 ELSE 500,
                             body |-> IF g.signal # None /\ ok
                                      THEN g.signal ELSE None])
    /\ UNCHANGED <<mpc, mBin, mPoly, mSig, tickEvents, invoked, genRaised,
                   mOracle, mErr, mFetched, running>>

vars == <<started, shutdownDone, httpClients, llmKey, feedVars, monVars,
          apiResp, tradeVars>>

Init ==
    /\ started = FALSE
    /\ shutdownDone = FALSE
    /\ httpClients = [polymarket |-> "None", trading |-> "None",
                      wallet |-> "None"]
    /\ llmKey = "None"
    /\ websocket = "None"
    /\ latest_price = None
    /\ last_update = None
    /\ connected = FALSE
    /\ cpc = "idle"
    /\ reconnect_delay = InitialReconnectDelay
    /\ fails = 0
    /\ waited = None
    /\ received = <<>>
    /\ attemptsSinceStop = 0
    /\ listenExit = "none"
    /\ bitcoin_market_cache = None
    /\ mpc = "idle"
    /\ mBin = None
    /\ mPoly = None
    /\ mSig = None
    /\ tickEvents = <<>>
    /\ invoked = FALSE
    /\ genRaised = FALSE
    /\ mOracle = None
    /\ mErr = "none"
    /\ mFetched = FALSE
    /\ running = 0
    /\ apiResp = None
    /\ tConnected = FALSE
    /\ tClient = None
    /\ tLastConnect = "none"
    /\ tClosedSince = FALSE
    /\ tLast = None

Feed ==
    /\ \/ ConnectOK
       \/ ConnectFail
       \/ SleepDone
       \/ \E m \in Messages : RecvMessage(m)
       \/ \E how \in {"closed", "error"} : ListenEnd(how)
    /\ UNCHANGED <<started, shutdownDone, httpClients, llmKey, monVars,
                   apiResp, tradeVars>>

Monitor ==
    /\ \/ TickStart
       \/ \E resp \in GammaResponses : TickFetch(resp)
       \/ \E ok \in BOOLEAN : TickEmitPrice(ok)
       \/ \E resp \in GammaResponses, oracle \in OracleOutcomes :
            TickGenerate(resp, oracle)
       \/ \E ok \in BOOLEAN : TickInsert(ok)
       \/ \E ok \in BOOLEAN : TickEmitSignal(ok)
       \/ TickSleepDone
    /\ UNCHANGED <<started, shutdownDone, httpClients, llmKey, feedVars,
                   apiResp, tradeVars>>

Api ==
    /\ \/ \E resp \in GammaResponses : get_current_prices(resp)
       \/ \E resp \in GammaResponses, oracle \in OracleOutcomes,
             ok \in BOOLEAN : post_generate_signal(resp, oracle, ok)
    /\ UNCHANGED <<started, shutdownDone, httpClients, llmKey, feedVars,
                   tradeVars>>

Trade ==
    /\ \/ \E key \in PrivateKeys, how \in ConnectOutcomes :
            connect_account(key, how)
       \/ \E side \in Sides, venue \in VenueOutcomes :
            place_market_order(side, venue)
       \/ \E side \in Sides, price \in LimitPrices, venue \in VenueOutcomes :
            place_limit_order(side, price, venue)
       \/ \E ok \in BOOLEAN : cancel_order(ok)
       \/ close_trading
    /\ UNCHANGED <<started, shutdownDone, llmKey, feedVars, monVars, apiResp>>

Next ==
    \/ \E key \in BOOLEAN, ok \in BOOLEAN : Startup(key, ok)
    \/ Shutdown
    \/ Feed
    \/ Monitor
    \/ Api
    \/ Trade

Spec == Init /\ [][Next]_vars

NextFeed ==
    \/ \E key \in BOOLEAN, ok \in BOOLEAN : Startup(key, ok)
    \/ Shutdown
    \/ Feed
SpecFeed == Init /\ [][NextFeed]_vars

\* The monitor against a feed whose connection attempts succeed, started
\* with its credential set.
FeedUp ==
    /\ \/ ConnectOK
       \/ \E m \in Messages : RecvMessage(m)
       \/ \E how \in {"closed", "error"} : ListenEnd(how)
    /\ UNCHANGED <<started, shutdownDone, httpClients, llmKey, monVars,
                   apiResp, tradeVars>>

NextMon == Startup(TRUE, TRUE) \/ Shutdown \/ FeedUp \/ Monitor
SpecMon == Init /\ [][NextMon]_vars

NextApi == Startup(TRUE, TRUE) \/ Shutdown \/ FeedUp \/ Api
SpecApi == Init /\ [][NextApi]_vars

\* The trading service on its own.
NextTrade == Startup(TRUE, TRUE) \/ Shutdown \/ Trade
SpecTrade == Init /\ [][NextTrade]_vars

\* ======================================================================
\* Properties
\* ======================================================================

Last(h) == h[Len(h)]

\* The message is a JSON object whose 'p' field holds a number.
IsPriced(m) == m.json /\ "p" \in DOMAIN m.data /\ CanFloat(m.data["p"])

\* The message is a JSON object without a 'p' field.
LacksPrice(m) == m.json /\ "p" \notin DOMAIN m.data

\* The price of the last priced message of a history, if any.
RECURSIVE LastPriced(_)
LastPriced(h) ==
    IF h = <<>> THEN None
    ELSE IF IsPriced(Last(h)) THEN Some(FloatTable[Last(h).data["p"]])
    ELSE LastPriced(SubSeq(h, 1, Len(h) - 1))

RECURSIVE Pow2(_)
Pow2(n) == IF n <= 0 THEN 1 ELSE 2 * Pow2(n - 1)

\* C1: whatever messages the listener has received, get_latest_price()
\* is the price of the most recent one that carried a price (a 'p' field
\* holding a number), and None when there was none: last write wins.
C1_LastWriteWins == get_latest_price = LastPriced(received)

\* C1 witness: two priced messages with different prices were received
\* and the second one is the price retained.
C1_Overwritten ==
    /\ Len(received) >= 2
    /\ IsPriced(received[1]) /\ IsPriced(received[2])
    /\ FloatTable[received[1].data["p"]] # FloatTable[received[2].data["p"]]
    /\ get_latest_price = Some(FloatTable[received[2].data["p"]])
    /\ last_update = Some(2)

\* C2: GET /prices/current answers "insufficient data" (503) exactly when
\* the spot price is absent or the prediction-market price is unavailable.
C2_InsufficientIff ==
    (apiResp # None /\ started) =>
        ((apiResp[1].status = 503)
            <=> (apiResp[1].spot = None \/ apiResp[1].market = None))

\* C3: the delay slept after the Nth consecutive failed connection attempt
\* is min(2^(N-1), 60), and once a connection has succeeded the delay in
\* force is 1 again.
C3_BackoffDelay ==
    /\ waited # None => waited[1] = Min(Pow2(fails - 1), MaxReconnectDelay)
    /\ cpc = "listening" => reconnect_delay = InitialReconnectDelay

\* C3 witness: the eighth consecutive failure sleeps the capped delay.
C3_CapReached == fails = 8 /\ waited = Some(60) /\ cpc = "sleeping"

\* C5: a Signal returned by generate_signal has direction BUY or SELL.
C5_OnlyBuySell == mSig # None => mSig[1].signal_type \in {"BUY", "SELL"}

\* The oracle call failed, or its text holds no JSON body, or its JSON
\* body misses a required field.
OracleFailed(o) ==
    \/ o.raises
    \/ \A i \in DOMAIN o.text : ~(o.text[i].t = "body" /\ o.text[i].json)
    \/ \E i \in DOMAIN o.text :
          /\ o.text[i].t = "body" /\ o.text[i].json
          /\ {"signal_type", "confidence", "reason"} \ DOMAIN o.text[i].data # {}

\* C6: generate_signal never raises to the monitor loop; when the oracle
\* call fails, or its answer is not JSON or misses a required field, it
\* returns None and the tick goes to its sleep with no error logged.
C6_NeverRaises ==
    /\ ~genRaised
    /\ mErr # "generate_signal"
    /\ (mOracle # None /\ OracleFailed(mOracle[1])) =>
          (mSig = None /\ mErr = "none" /\ mpc \in {"sleep", "tick"})

\* C6 witness: the oracle answered JSON without a confidence and the tick
\* reached its sleep with no signal.
C6_MissingFieldSeen ==
    /\ mOracle # None /\ ~mOracle[1].raises
    /\ \E i \in DOMAIN mOracle[1].text :
          /\ mOracle[1].text[i].t = "body" /\ mOracle[1].text[i].json
          /\ "confidence" \notin DOMAIN mOracle[1].text[i].data
    /\ mSig = None /\ mpc = "sleep"

\* C7: in a tick that published its price_update, generate_signal is
\* called exactly when |delta| > 100 for the delta published, and a
\* new_signal follows the price_update exactly when a Signal was returned
\* (ticks whose new_signal emit itself raised set aside).
C7_SignalIff ==
    (mpc = "sleep" /\ tickEvents # <<>> /\ mErr # "emit_signal") =>
        /\ invoked <=> Abs(tickEvents[1].price_delta) > SignalThreshold
        /\ (mSig # None) <=>
              (Len(tickEvents) = 2 /\ tickEvents[2].topic = "new_signal")

\* C8: once disconnect() has been called the run-loop makes at most the
\* connection attempt of the cycle in progress, and connected stays false.
C8_StopObserved == shutdownDone => (attemptsSinceStop <= 1 /\ ~connected)

\* C9: once the shutdown handler has run the monitor loop starts no tick,
\* makes no prediction-market fetch and publishes no event.
C9_MonitorStops ==
    [][shutdownDone =>
          /\ ~(mpc = "tick" /\ mpc' # "tick")
          /\ ~(mpc \in {"fetch", "gen"} /\ mpc' # mpc)
          /\ Len(tickEvents') <= Len(tickEvents)]_vars

\* C10: a received JSON object without a 'p' field changes neither
\* latest_price nor last_update, and the listener stays on the same open
\* connection.
C10_DroppedSilently ==
    [][(received' # received /\ LacksPrice(Last(received'))) =>
          /\ latest_price' = latest_price
          /\ last_update' = last_update
          /\ cpc' = "listening"
          /\ websocket' = "open"
          /\ connected' = connected]_vars

\* C10 witness: a message without a price followed a priced one; the
\* sample is the priced one's and the listener is still listening.
C10_DropSeen ==
    /\ Len(received) = 2
    /\ IsPriced(received[1]) /\ LacksPrice(received[2])
    /\ latest_price = Some(FloatTable[received[1].data["p"]])
    /\ last_update = Some(1)
    /\ cpc = "listening" /\ websocket = "open"

\* C11: a tick that finds the spot price absent, or whose fetch finds the
\* prediction-market price unavailable, publishes nothing, does not call
\* generate_signal, persists nothing and goes to its sleep.
C11_SkippedTick ==
    (mpc # "idle" /\ (mBin = None \/ (mFetched /\ mPoly = None))) =>
        /\ tickEvents = <<>>
        /\ ~invoked
        /\ mSig = None
        /\ mpc \in {"sleep", "tick"}

\* C11 witness: a tick read a spot price, its fetch found no market, and
\* it is at its sleep with nothing published.
C11_MarketUnavailableSeen ==
    /\ mBin # None /\ mFetched /\ mPoly = None
    /\ mpc = "sleep" /\ tickEvents = <<>> /\ mErr = "none"

\* C12: a tick that ends without an error and read a spot price has made
\* its fetch, and when the fetch gave a market price it has published
\* exactly one price_update, whose delta is spot minus market price.
C12_OnePriceUpdate ==
    (mpc = "sleep" /\ mErr = "none" /\ mBin # None) =>
        /\ mFetched
        /\ mPoly # None =>
              /\ tickEvents # <<>>
              /\ tickEvents[1] = PriceUpdate(mBin[1], mPoly[1])
              /\ tickEvents[1].price_delta = mBin[1] - mPoly[1]
              /\ Cardinality({i \in DOMAIN tickEvents :
                                tickEvents[i].topic = "price_update"}) = 1

\* C13: after startup the monitor loop is always at a step of its loop;
\* a tick that raised is at its sleep or back at the top of the loop, the
\* sleep can always end and the next tick can always start.
C13_ErrorsContained ==
    /\ started => mpc \in {"tick", "fetch", "emit_price", "gen", "insert",
                           "emit_sig", "sleep"}
    /\ mErr # "none" => mpc \in {"sleep", "tick"}
    /\ mpc = "sleep" => ENABLED TickSleepDone
    /\ mpc = "tick" => ENABLED TickStart

\* C13 witness: the loop is back at its top after insert_one raised.
C13_NextTickAfterError == mErr = "insert_one" /\ mpc = "tick"

\* C15: at most one tick body is in progress, and none is while the loop
\* sleeps or stands at its top.
C15_Sequential ==
    /\ running \in {0, 1}
    /\ mpc \in {"idle", "tick", "sleep"} => running = 0

\* C15 witness: a tick is in progress after an earlier one has fetched.
C15_SecondTick ==
    /\ mpc = "fetch" /\ ~mFetched /\ running = 1
    /\ bitcoin_market_cache # None

\* C17: a tick whose insert_one raised has still published the new_signal
\* of its Signal.
C17_PublishDespiteSinkFailure ==
    (mpc = "sleep" /\ mErr = "insert_one") =>
        (Len(tickEvents) = 2 /\ tickEvents[2] = NewSignal(mSig[1]))

C14_NoZeroSnapshot ==
    (apiResp # None /\ apiResp[1].market = None) => apiResp[1].body = None

\* C16: once shutdown has run, the feed connection and the HTTP client of
\* every service are released: none is still open.
C16_AllReleased ==
    shutdownDone =>
        /\ websocket # "open"
        /\ \A c \in DOMAIN httpClients : httpClients[c] # "open"

\* C18: a request that needs a price the service does not have (services
\* not initialised, no spot price yet, no market price) is answered 503.
C18_Unavailable503 ==
    (apiResp # None /\ (apiResp[1].spot = None \/ apiResp[1].market = None))
        => apiResp[1].status = 503

\* C20: after the listener has ended on a transport error the connector
\* does not stand ready for a new attempt before it has slept the backoff
\* delay.
C20_BackoffAfterError ==
    ~(cpc = "connecting" /\ listenExit = "error")

\* C21: no connection failure, listener error or unparseable message ends
\* the connect() run-loop: once started it is always connecting, listening
\* or sleeping, a sleep always ends and a connection attempt can always be
\* made; and after such an error latest_price is still the last valid
\* price received.
C21_ErrorsNotFatal ==
    /\ started => cpc \in {"connecting", "listening", "sleeping"}
    /\ cpc = "sleeping" => ENABLED SleepDone
    /\ cpc = "connecting" => ENABLED ConnectOK
    /\ (listenExit \in {"error", "parse"} \/ cpc = "sleeping")
          => latest_price = LastPriced(received)

\* C21 witness: a valid price, then an unparseable message; the loop is
\* about to connect again and the price is kept.
C21_RetryAfterParseError ==
    /\ listenExit = "parse" /\ cpc = "connecting"
    /\ Len(received) = 2 /\ IsPriced(received[1]) /\ ~IsPriced(received[2])
    /\ latest_price = Some(FloatTable[received[1].data["p"]])

\* The position in a history of its last priced message, 0 when none.
RECURSIVE LastPricedAt(_)
LastPricedAt(h) ==
    IF h = <<>> THEN 0
    ELSE IF IsPriced(Last(h)) THEN Len(h)
    ELSE LastPricedAt(SubSeq(h, 1, Len(h) - 1))

\* C22: in every state a reader can run in, (latest_price, last_update) is
\* a complete sample: both absent, or the price and the timestamp of one
\* and the same message, the last priced one; never the price of one
\* message with the timestamp of another.
C22_NoTornSample ==
    LET i == LastPricedAt(received) IN
      IF i = 0
      THEN latest_price = None /\ last_update = None
      ELSE /\ latest_price = Some(FloatTable[received[i].data["p"]])
           /\ last_update = Some(i)

\* C22 witness: the monitor holds the spot price it read and, before its
\* tick has gone on, the connector has written a newer complete sample.
C22_WriteDuringTick ==
    /\ mpc = "fetch" /\ mBin # None
    /\ latest_price # None /\ latest_price # mBin
    /\ last_update = Some(2)

\* A text in a ```json or a plain ``` fenced block.
Wrapped(lang, a) ==
    (IF lang THEN <<Fence, Lang>> ELSE <<Fence>>) \o a \o <<Fence>>

\* The text is one JSON object holding signal_type, a numeric confidence
\* and reason.
ValidAnswer(a) ==
    /\ JsonLoadsOk(a)
    /\ {"signal_type", "confidence", "reason"} \subseteq DOMAIN a[1].data
    /\ a[1].data.confidence \in DOMAIN ConfTable

\* The valid answers an oracle text of the model wraps.
AnswerTexts ==
    {<<Body(Answer(ty, c, "r"))>> : ty \in {"BUY", "SELL"}, c \in {"0.8", "0.5"}}
      \cup {<<JsonHead(Answer("BUY", "0.8", "fenced")), Fence, JsonTail>>}

\* C23: when the oracle's text is a valid answer wrapped in a ```json or a
\* plain ``` fenced block, generate_signal returns a Signal with that
\* answer's direction, confidence and reason; when the text is not
\* parseable after stripping, it returns no signal.
C23_FenceTransparent ==
    (mOracle # None /\ ~mOracle[1].raises) =>
        /\ \A a \in AnswerTexts, lang \in BOOLEAN :
              (ValidAnswer(a) /\ mOracle[1].text = Wrapped(lang, a)) =>
                 /\ mSig # None
                 /\ mSig[1].signal_type = a[1].data.signal_type
                 /\ mSig[1].confidence = ConfTable[a[1].data.confidence]
                 /\ mSig[1].reason = a[1].data.reason
        /\ ~JsonLoadsOk(StripFence(mOracle[1].text)) => mSig = None

\* C24: a startup that finds the decision oracle's API key missing is
\* aborted: the feed connector task and the monitor loop are not started.
C24_MissingKeyAborts ==
    llmKey = "missing" => (~started /\ cpc = "idle" /\ mpc = "idle")

\* C25: a new_signal event published in a tick carries the snapshot of that
\* tick's price_update: the same binance_price, polymarket_price and
\* price_delta, hence a delta beyond the threshold.
C25_SameSnapshot ==
    \A i \in DOMAIN tickEvents :
        tickEvents[i].topic = "new_signal" =>
            /\ tickEvents[1].topic = "price_update"
            /\ tickEvents[i].signal.binance_price = tickEvents[1].binance_price
            /\ tickEvents[i].signal.polymarket_price
                  = tickEvents[1].polymarket_price
            /\ tickEvents[i].signal.price_delta = tickEvents[1].price_delta
            /\ Significant(tickEvents[i].signal.price_delta)

\* C26: the connected flag is true only while an open upstream connection
\* exists and is being listened on.
C26_ConnectedMeansOpen ==
    connected => (websocket = "open" /\ cpc = "listening")

\* C27: a call of get_bitcoin_market_price changes bitcoin_market_cache
\* only to the market whose price it returns; a call that returns
\* unavailable leaves the cache as it was.
C27_CacheIsSelection ==
    [][bitcoin_market_cache' # bitcoin_market_cache =>
          /\ apiResp' # None
          /\ apiResp'[1].market # None
          /\ bitcoin_market_cache' = Some(apiResp'[1].market[1].market_id)]_vars

\* C28: is_connected() is true exactly when the most recent connect_account
\* succeeded and close() has not run since; and an order operation called
\* while is_connected() is false hands nothing to the venue client and
\* returns success = false.
C28_ConnectedExactly ==
    /\ is_connected <=> (tLastConnect = "ok" /\ ~tClosedSince)
    /\ (tLast # None /\ ~tLast[1].wasConnected) =>
          (tLast[1].sent = None /\ ~tLast[1].result.success)

\* C28 witness: a connect_account failed with the client already built,
\* and a limit order placed after it was refused.
C28_RefusedAfterFailedConnect ==
    /\ tLastConnect = "failed" /\ tClient # None /\ ~tConnected
    /\ tLast # None /\ tLast[1].op = "limit" /\ ~tLast[1].wasConnected
    /\ tLast[1].result = Refused("Account not connected")

\* C29: an order handed to the venue is a BUY exactly when the requested
\* side is "BUY", and a SELL for every other side string; a market order
\* is priced 0.99 as a BUY and 0.01 as a SELL; an order of a connected
\* account is never refused for its side; the record returned echoes the
\* requested side.
C29_BuyOnlyIfBuy ==
    (tLast # None /\ tLast[1].op \in {"market", "limit"}) =>
        /\ tLast[1].sent # None =>
              /\ tLast[1].sent[1].side = "BUY" <=> tLast[1].side = "BUY"
              /\ tLast[1].sent[1].side \in {"BUY", "SELL"}
              /\ tLast[1].op = "market" =>
                    tLast[1].sent[1].price
                      = (IF tLast[1].side = "BUY" THEN 99 ELSE 1)
        /\ tLast[1].result.success =>
              (tLast[1].sent # None /\ tLast[1].result.side = Some(tLast[1].side))
        /\ (tLast[1].wasConnected /\ tLast[1].sent = None) =>
              tLast[1].result.error = "venue"

\* C29 witness: a market order with a side that is neither BUY nor SELL
\* went to the venue as a SELL at 0.01 and the record echoes the side.
C29_UnknownSideSold ==
    /\ tLast # None /\ tLast[1].op = "market" /\ tLast[1].side = "HOLD"
    /\ tLast[1].sent = Some([kind |-> "FOK", side |-> "SELL", price |-> 1])
    /\ tLast[1].result.success /\ tLast[1].result.side = Some("HOLD")

====
